---- MODULE Spec2Model ----
(***************************************************************************)
(* Model of src/pybind/mgr/ansible/ansible_runner_svc.py: the REST client  *)
(* of the Ansible Runner Service (class Client) and the handle of one      *)
(* playbook execution (class PlayBookExecution).                           *)
(*                                                                         *)
(* The program is synchronous and single threaded.  One action is one      *)
(* whole call of a public method, together with the outcome of the HTTP    *)
(* exchange the call performs (a response of the server, or a failure of   *)
(* the requests library).  After a call the caller holds the outcome       *)
(* (phase "returned") until it goes on to its next call (Continue).        *)
(*                                                                         *)
(* Strings that the code only compares or passes on are TLA+ strings.      *)
(* Strings that the code hands to re.match (task names, event names, the   *)
(* task pattern, the event filter) are sequences of one-character strings. *)
(***************************************************************************)
EXTENDS Integers, Sequences, FiniteSets, TLC

VARIABLES
    client,   \* the Client object: server_url, verify_server, client_cert
    handle,   \* the PlayBookExecution object
    phase,    \* "idle": the caller is about to call; "returned": a call has ended
    call,     \* the call that ended last: method and arguments
    before,   \* the handle as it was when that call started
    net,      \* the outcome of the HTTP exchange of that call
    sent,     \* the HTTP requests that call issued, in order
    result,   \* what the call gave its caller: a value or an exception
    history   \* "new": never launched; "failed": only failed launches so far;
              \* "launched": some launch has stored an identifier

vars == <<client, handle, phase, call, before, net, sent, result, history>>

----------------------------------------------------------------------------
(* Bounds of the model *)

\* the largest number of entries of a data.events mapping of a response
MaxEvents == 2
\* the largest length of the event_filter list given to get_result
MaxFilter == 2

----------------------------------------------------------------------------
(* Constants of the module *)

API_URL == "api"
PLAYBOOK_EXEC_URL == "api/v1/playbooks"
\* PLAYBOOK_EVENTS % uuid
PLAYBOOK_EVENTS(uuid) == <<"api/v1/jobs", uuid, "events">>

AnsibleRunnerServiceError == "AnsibleRunnerServiceError"

\* ExecutionStatusCode
SUCCESS == 0
ERROR == 1
ON_GOING == 2
NOT_LAUNCHED == 3

\* requests.codes.ok
codes_ok == 200

----------------------------------------------------------------------------
(* Values *)

Return(v) == [kind |-> "return", exc |-> "", msg |-> "", value |-> v]
Raise(type, text) == [kind |-> "raise", exc |-> type, msg |-> text, value |-> "None"]

\* the empty dict {}
EmptyDict == <<>>

\* one entry of data.events: "task" may be missing, "event" is the event type
Tasks == {<<"a", "b">>, <<"b">>}
EventTypes == {<<"x">>, <<"y", "x">>}
EventData ==
    [hasTask : {TRUE}, task : Tasks, event : EventTypes]
        \cup [hasTask : {FALSE}, task : {<<>>}, event : EventTypes]

\* the data.events mappings: event name (1..MaxEvents) -> event data
EventMaps == UNION {[D -> EventData] : D \in SUBSET (1..MaxEvents)}

\* the result_pattern given to the constructor; "." is the regex wildcard
Patterns == {<<>>, <<"a">>, <<"b">>, <<".", "b">>}
\* the event names a caller lists in event_filter
FilterNames == {<<"x">>, <<"y">>}
EventFilters == UNION {[1..n -> FilterNames] : n \in 0..MaxFilter}

\* the text of a response: not JSON at all, a JSON object without the key the
\* caller looks up, or one of the three payloads of the service
Msgs == {"successful", "failed", "running"}
Uuids == {"", "u1", "u2"}
NoBodyFields == [msg |-> "", play_uuid |-> "", events |-> EmptyDict]
Bodies ==
    {[kind |-> k, msg |-> "", play_uuid |-> "", events |-> EmptyDict] :
        k \in {"notjson", "nokey"}}
    \cup {[kind |-> "msg", msg |-> m, play_uuid |-> "", events |-> EmptyDict] :
        m \in Msgs}
    \cup {[kind |-> "play", msg |-> "", play_uuid |-> u, events |-> EmptyDict] :
        u \in Uuids}
    \cup {[kind |-> "events", msg |-> "", play_uuid |-> "", events |-> e] :
        e \in EventMaps}

StatusCodes == {200, 201, 404, 500}
Reason(status) ==
    CASE status = 200 -> "OK"
      [] status = 201 -> "Created"
      [] status = 404 -> "Not Found"
      [] OTHER -> "Internal Server Error"

NoResponse == [status |-> 0, reason |-> "", body |-> [kind |-> "notjson"] @@ NoBodyFields]
NoException == [type |-> "", msg |-> ""]
Responses == {[status |-> s, reason |-> Reason(s), body |-> b] :
                 s \in StatusCodes, b \in Bodies}
\* what requests.get/post/delete raise: a RequestException or an IOError
RequestsExceptions == {[type |-> "ConnectionError", msg |-> "connection refused"],
                       [type |-> "IOError", msg |-> "cannot read client_cert"]}

\* the outcome of one HTTP exchange
NetOutcomes ==
    {[failed |-> FALSE, ex |-> NoException, resp |-> r] : r \in Responses}
    \cup {[failed |-> TRUE, ex |-> e, resp |-> NoResponse] : e \in RequestsExceptions}
\* no exchange took place
NoNet == [failed |-> FALSE, ex |-> NoException, resp |-> NoResponse]

NoCall == [op |-> "", endpoint |-> <<>>, event_filter |-> <<>>]
Call(op) == [op |-> op, endpoint |-> <<>>, event_filter |-> <<>>]

----------------------------------------------------------------------------
(* Library semantics the code relies on *)

\* requests.Response.ok: no 4xx or 5xx status
ResponseOk(r) == ~(400 <= r.status /\ r.status < 600)

\* "if response:" on the outcome of a guarded http_get: None (the call raised and
\* the exception was logged) is false, and a Response is as true as its ok
ResponseTruth_notNone(got) == got.kind = "return"
ResponseTruth(got) == got.kind = "return" /\ ResponseOk(got.value)

\* json.loads(text)[...]: the exception of the parse or of the lookup, "" if none
JsonLookup(body, kind) ==
    IF body.kind = "notjson" THEN "ValueError"
    ELSE IF body.kind # kind THEN "KeyError"
    ELSE ""

\* "|".join(event_filter)
RECURSIVE Join(_)
Join(names) ==
    IF Len(names) = 0 THEN <<>>
    ELSE IF Len(names) = 1 THEN names[1]
    ELSE names[1] \o <<"|">> \o Join(Tail(names))

\* the alternatives of a pattern, split at "|"
RECURSIVE Alternatives(_, _)
Alternatives(pattern, acc) ==
    IF Len(pattern) = 0 THEN <<acc>>
    ELSE IF Head(pattern) = "|" THEN <<acc>> \o Alternatives(Tail(pattern), <<>>)
    ELSE Alternatives(Tail(pattern), Append(acc, Head(pattern)))

\* one alternative matches at the start of the string
MatchHere(alt, string) ==
    /\ Len(alt) <= Len(string)
    /\ \A i \in 1..Len(alt) : alt[i] = "." \/ alt[i] = string[i]

\* re.search in the place of re.match: a match anywhere in the string
re_search(pattern, string) ==
    LET alts == Alternatives(pattern, <<>>)
    IN \E i \in 1..Len(alts), k \in 0..Len(string) :
           MatchHere(alts[i], SubSeq(string, k + 1, Len(string)))

\* re.match(pattern, string) is not None
re_match(pattern, string) ==
    LET alts == Alternatives(pattern, <<>>)
    IN \E i \in 1..Len(alts) : MatchHere(alts[i], string)

----------------------------------------------------------------------------
(* class Client *)

\* Client.__init__
ClientInit(server_url, verify_server, ca_bundle, client_cert, client_key) ==
    [server_url |-> <<"https://", server_url>>,
     verify_server |-> IF ca_bundle # "" THEN ca_bundle ELSE verify_server,
     client_cert |-> <<client_cert, client_key>>]

Request(c, method, endpoint) ==
    [method |-> method, url |-> c.server_url \o endpoint,
     verify |-> c.verify_server, cert |-> c.client_cert]

\* the decorator letting the exception of requests through
handle_requests_exceptions_reraise(n, value) ==
    IF n.failed THEN Raise(n.ex.type, n.ex.msg) ELSE Return(value)

\* the decorator: a RequestException or IOError becomes AnsibleRunnerServiceError
handle_requests_exceptions(n, value) ==
    IF n.failed THEN Raise(AnsibleRunnerServiceError, n.ex.msg) ELSE Return(value)

http_get(c, endpoint, n) ==
    [sent |-> <<Request(c, "GET", endpoint)>>,
     result |-> handle_requests_exceptions(n, n.resp)]

http_post(c, endpoint, payload, params_dict, n) ==
    [sent |-> <<Request(c, "POST", endpoint)
                  @@ [json |-> payload, params |-> params_dict]>>,
     result |-> handle_requests_exceptions(n, n.resp)]

http_delete(c, endpoint, n) ==
    [sent |-> <<Request(c, "DELETE", endpoint)>>,
     result |-> handle_requests_exceptions(n, n.resp)]

http_put(c, endpoint, payload) ==
    [sent |-> <<>>, result |-> Raise("NotImplementedError", "TODO")]

\* is_operative that answers response.ok
is_operative_ok(c, n) ==
    LET got == http_get(c, <<API_URL>>, n)
    IN [sent |-> got.sent,
        result |-> IF got.result.kind = "raise" THEN got.result
                   ELSE Return(ResponseOk(got.result.value))]
is_operative(c, n) ==
    LET got == http_get(c, <<API_URL>>, n)
    IN [sent |-> got.sent,
        result |-> IF got.result.kind = "raise" THEN got.result
                   ELSE IF ResponseTruth(got.result)
                        THEN Return(got.result.value.status = codes_ok)
                        ELSE Return(FALSE)]

----------------------------------------------------------------------------
(* class PlayBookExecution *)

\* PlayBookExecution.__init__
PlayBookExecutionInit(playbook, result_pattern, the_params, querystr_dict) ==
    [play_uuid |-> "-",
     result_task_pattern |-> result_pattern,
     playbook |-> playbook,
     params |-> the_params,
     querystr_dict |-> querystr_dict]

\* launch that sets the identifier to the empty string when it fails
launch_marks_failure(c, h, n) ==
    LET got == http_post(c, <<PLAYBOOK_EXEC_URL, h.playbook>>, h.params,
                         h.querystr_dict, n)
        response == got.result.value
        parse == JsonLookup(response.body, "play")
    IN IF got.result.kind = "raise"
       THEN [handle |-> [h EXCEPT !.play_uuid = ""], sent |-> got.sent,
             result |-> got.result]
       ELSE IF ResponseOk(response)
       THEN IF parse # ""
            THEN [handle |-> h, sent |-> got.sent, result |-> Raise(parse, "")]
            ELSE [handle |-> [h EXCEPT !.play_uuid = response.body.play_uuid],
                  sent |-> got.sent, result |-> Return("None")]
       ELSE [handle |-> [h EXCEPT !.play_uuid = ""], sent |-> got.sent,
             result |-> Raise(AnsibleRunnerServiceError, response.reason)]
launch(c, h, n) ==
    LET got == http_post(c, <<PLAYBOOK_EXEC_URL, h.playbook>>, h.params,
                         h.querystr_dict, n)
        response == got.result.value
        parse == JsonLookup(response.body, "play")
    IN IF got.result.kind = "raise"
       THEN \* logged and raised again
            [handle |-> h, sent |-> got.sent, result |-> got.result]
       ELSE IF ResponseOk(response)
       THEN IF parse # ""
            THEN [handle |-> h, sent |-> got.sent, result |-> Raise(parse, "")]
            ELSE [handle |-> [h EXCEPT !.play_uuid = response.body.play_uuid],
                  sent |-> got.sent, result |-> Return("None")]
       ELSE [handle |-> h, sent |-> got.sent,
             result |-> Raise(AnsibleRunnerServiceError, response.reason)]

\* the mapping of "msg" with its last two branches exchanged
StatusOfMsg_exchanged(the_status) ==
    IF the_status = "successful" THEN SUCCESS
    ELSE IF the_status = "failed" THEN ON_GOING
    ELSE ERROR

\* the mapping of the "msg" field of the status response
StatusOfMsg(the_status) ==
    IF the_status = "successful" THEN SUCCESS
    ELSE IF the_status = "failed" THEN ERROR
    ELSE ON_GOING

\* get_status without the final else: a missing response leaves status_value as
\* it was initialised
get_status_no_else(c, h, n) ==
    IF h.play_uuid = "-"
    THEN [handle |-> h, sent |-> <<>>, result |-> Return(NOT_LAUNCHED)]
    ELSE IF h.play_uuid = ""
    THEN [handle |-> h, sent |-> <<>>, result |-> Return(ERROR)]
    ELSE LET got == http_get(c, <<PLAYBOOK_EXEC_URL, h.play_uuid>>, n)
             parse == JsonLookup(got.result.value.body, "msg")
         IN IF ResponseTruth(got.result)
            THEN IF parse # ""
                 THEN [handle |-> h, sent |-> got.sent, result |-> Raise(parse, "")]
                 ELSE [handle |-> h, sent |-> got.sent,
                       result |-> Return(StatusOfMsg(got.result.value.body.msg))]
            ELSE [handle |-> h, sent |-> got.sent, result |-> Return(NOT_LAUNCHED)]

\* get_status that asks the service also for the empty identifier
get_status_asks_for_empty(c, h, n) ==
    IF h.play_uuid = "-"
    THEN [handle |-> h, sent |-> <<>>, result |-> Return(NOT_LAUNCHED)]
    ELSE LET got == http_get(c, <<PLAYBOOK_EXEC_URL, h.play_uuid>>, n)
             parse == JsonLookup(got.result.value.body, "msg")
         IN IF ResponseTruth(got.result)
            THEN IF parse # ""
                 THEN [handle |-> h, sent |-> got.sent, result |-> Raise(parse, "")]
                 ELSE [handle |-> h, sent |-> got.sent,
                       result |-> Return(StatusOfMsg(got.result.value.body.msg))]
            ELSE [handle |-> h, sent |-> got.sent, result |-> Return(ERROR)]

\* get_status that records a failure in the identifier
get_status_marks_error(c, h, n) ==
    IF h.play_uuid = "-"
    THEN [handle |-> h, sent |-> <<>>, result |-> Return(NOT_LAUNCHED)]
    ELSE IF h.play_uuid = ""
    THEN [handle |-> h, sent |-> <<>>, result |-> Return(ERROR)]
    ELSE LET got == http_get(c, <<PLAYBOOK_EXEC_URL, h.play_uuid>>, n)
             parse == JsonLookup(got.result.value.body, "msg")
         IN IF ResponseTruth(got.result)
            THEN IF parse # ""
                 THEN [handle |-> h, sent |-> got.sent, result |-> Raise(parse, "")]
                 ELSE [handle |-> h, sent |-> got.sent,
                       result |-> Return(StatusOfMsg(got.result.value.body.msg))]
            ELSE [handle |-> [h EXCEPT !.play_uuid = ""], sent |-> got.sent,
                  result |-> Return(ERROR)]

get_status(c, h, n) ==
    IF h.play_uuid = "-"
    THEN [handle |-> h, sent |-> <<>>, result |-> Return(NOT_LAUNCHED)]
    ELSE IF h.play_uuid = ""
    THEN [handle |-> h, sent |-> <<>>, result |-> Return(ERROR)]
    ELSE LET got == http_get(c, <<PLAYBOOK_EXEC_URL, h.play_uuid>>, n)
             parse == JsonLookup(got.result.value.body, "msg")
         IN IF ResponseTruth(got.result)
            THEN IF parse # ""
                 THEN [handle |-> h, sent |-> got.sent, result |-> Raise(parse, "")]
                 ELSE [handle |-> h, sent |-> got.sent,
                       result |-> Return(StatusOfMsg(got.result.value.body.msg))]
            ELSE [handle |-> h, sent |-> got.sent, result |-> Return(ERROR)]

get_result(c, h, event_filter, n) ==
    IF h.play_uuid = ""
    THEN [handle |-> h, sent |-> <<>>, result |-> Return(EmptyDict)]
    ELSE LET got == http_get(c, PLAYBOOK_EVENTS(h.play_uuid), n)
             parse == JsonLookup(got.result.value.body, "events")
             events == got.result.value.body.events
             ByTask(data) == data.hasTask /\ re_match(h.result_task_pattern, data.task)
             by_task == IF h.result_task_pattern # <<>>
                        THEN [event \in {e \in DOMAIN events : ByTask(events[e])}
                                 |-> events[event]]
                        ELSE events
             type_of_events == Join(event_filter)
             ByEvent(data) == re_match(type_of_events, data.event)
             by_event == IF event_filter # <<>>
                         THEN [event \in {e \in DOMAIN by_task : ByEvent(by_task[e])}
                                  |-> by_task[event]]
                         ELSE by_task
         IN IF ~ResponseTruth(got.result)
            THEN [handle |-> h, sent |-> got.sent, result |-> Return(EmptyDict)]
            ELSE IF parse # ""
            THEN [handle |-> h, sent |-> got.sent, result |-> Raise(parse, "")]
            ELSE [handle |-> h, sent |-> got.sent, result |-> Return(by_event)]

----------------------------------------------------------------------------
(* The caller *)

Init ==
    /\ \E ca_bundle \in {"", "ca.pem"} :
           client = ClientInit("runner:5001", TRUE, ca_bundle, "client.crt", "client.key")
    /\ \E p \in Patterns :
           handle = PlayBookExecutionInit("pb", p, "the_params", "querystr")
    /\ phase = "idle"
    /\ call = NoCall
    /\ before = handle
    /\ net = NoNet
    /\ sent = <<>>
    /\ result = Return("None")
    /\ history = "new"

\* a method of the handle has run: out is what it left behind
HandleCall(c, n, out) ==
    /\ phase' = "returned"
    /\ call' = c
    /\ before' = handle
    /\ handle' = out.handle
    /\ sent' = out.sent
    /\ net' = IF out.sent = <<>> THEN NoNet ELSE n
    /\ result' = out.result
    /\ UNCHANGED client

\* a method of the client has run
ClientCall(c, n, out) ==
    /\ phase' = "returned"
    /\ call' = c
    /\ before' = handle
    /\ sent' = out.sent
    /\ net' = IF out.sent = <<>> THEN NoNet ELSE n
    /\ result' = out.result
    /\ UNCHANGED <<client, handle, history>>

Launch ==
    /\ phase = "idle"
    /\ \E n \in NetOutcomes :
         LET out == launch(client, handle, n)
         IN /\ HandleCall(Call("launch"), n, out)
            /\ history' = IF out.result.kind = "return" THEN "launched"
                          ELSE IF history = "new" THEN "failed"
                          ELSE history

GetStatus ==
    /\ phase = "idle"
    /\ \E n \in NetOutcomes :
         HandleCall(Call("get_status"), n, get_status(client, handle, n))
    /\ UNCHANGED history

GetResult ==
    /\ phase = "idle"
    /\ \E n \in NetOutcomes, event_filter \in EventFilters :
         HandleCall([Call("get_result") EXCEPT !.event_filter = event_filter], n,
                    get_result(client, handle, event_filter, n))
    /\ UNCHANGED history

IsOperative ==
    /\ phase = "idle"
    /\ \E n \in NetOutcomes :
         ClientCall(Call("is_operative"), n, is_operative(client, n))

\* the endpoints a caller gives the client directly
Endpoints == {<<API_URL>>, <<PLAYBOOK_EXEC_URL, "pb">>}

HttpGet ==
    /\ phase = "idle"
    /\ \E n \in NetOutcomes, endpoint \in Endpoints :
         ClientCall([Call("http_get") EXCEPT !.endpoint = endpoint], n,
                    http_get(client, endpoint, n))

HttpPost ==
    /\ phase = "idle"
    /\ \E n \in NetOutcomes, endpoint \in Endpoints :
         ClientCall([Call("http_post") EXCEPT !.endpoint = endpoint], n,
                    http_post(client, endpoint, "payload", "params", n))

HttpDelete ==
    /\ phase = "idle"
    /\ \E n \in NetOutcomes, endpoint \in Endpoints :
         ClientCall([Call("http_delete") EXCEPT !.endpoint = endpoint], n,
                    http_delete(client, endpoint, n))

HttpPut ==
    /\ phase = "idle"
    /\ \E endpoint \in Endpoints :
         ClientCall([Call("http_put") EXCEPT !.endpoint = endpoint], NoNet,
                    http_put(client, endpoint, "payload"))

\* the caller has looked at the outcome and goes on
Continue ==
    /\ phase = "returned"
    /\ phase' = "idle"
    /\ call' = NoCall
    /\ before' = handle
    /\ net' = NoNet
    /\ sent' = <<>>
    /\ result' = Return("None")
    /\ UNCHANGED <<client, handle, history>>

Next ==
    \/ Launch
    \/ GetStatus
    \/ GetResult
    \/ IsOperative
    \/ HttpGet
    \/ HttpPost
    \/ HttpDelete
    \/ HttpPut
    \/ Continue

Spec == Init /\ [][Next]_vars

----------------------------------------------------------------------------
(* Properties *)

Returned == phase = "returned"
Returns(v) == result.kind = "return" /\ result.value = v
Raises(type) == result.kind = "raise" /\ result.exc = type
HasId(h) == h.play_uuid # "-" /\ h.play_uuid # ""
GotResponse == sent # <<>> /\ ~net.failed
ErrorStatus == GotResponse /\ net.resp.status >= 400
NoErrorStatus == GotResponse /\ net.resp.status < 400
StatusCalled == Returned /\ call.op = "get_status"
ResultCalled == Returned /\ call.op = "get_result"
LaunchCalled == Returned /\ call.op = "launch"

\* the one request a call is to issue
OnlyRequest(method, endpoint) ==
    /\ Len(sent) = 1
    /\ sent[1].method = method
    /\ sent[1].url = client.server_url \o endpoint

StartsWith(string, prefix) ==
    /\ Len(prefix) <= Len(string)
    /\ SubSeq(string, 1, Len(prefix)) = prefix

\* C1 as stated: for an identifier that is neither "-" nor "", get_status issues
\* exactly one GET on the status endpoint of the identifier, and returns Success
\* when the response's msg is "successful", Error when it is "failed", OnGoing for
\* any other msg, and Error when the GET fails at transport level.
C1_StatusFollowsMsg ==
    StatusCalled /\ HasId(before) =>
        /\ OnlyRequest("GET", <<"api/v1/playbooks", before.play_uuid>>)
        /\ net.failed => Returns(ERROR)
        /\ ~net.failed /\ net.resp.body.kind = "msg" =>
              /\ net.resp.body.msg = "successful" => Returns(SUCCESS)
              /\ net.resp.body.msg = "failed" => Returns(ERROR)
              /\ net.resp.body.msg \notin {"successful", "failed"} => Returns(ON_GOING)

\* C1 as amended: for an identifier that is neither "-" nor "", get_status issues
\* exactly one GET on the status endpoint of the identifier; it returns Error when
\* the GET fails at transport level or the response has an error status (4xx/5xx),
\* and for a response without an error status it returns Success when msg is
\* "successful", Error when it is "failed" and OnGoing for any other msg.
C1_StatusFollowsMsgOfOkResponse ==
    StatusCalled /\ HasId(before) =>
        /\ OnlyRequest("GET", <<"api/v1/playbooks", before.play_uuid>>)
        /\ net.failed => Returns(ERROR)
        /\ ErrorStatus => Returns(ERROR)
        /\ NoErrorStatus /\ net.resp.body.kind = "msg" =>
              /\ net.resp.body.msg = "successful" => Returns(SUCCESS)
              /\ net.resp.body.msg = "failed" => Returns(ERROR)
              /\ net.resp.body.msg \notin {"successful", "failed"} => Returns(ON_GOING)

C1_Witness ==
    /\ StatusCalled /\ HasId(before)
    /\ NoErrorStatus /\ net.resp.body.kind = "msg" /\ net.resp.body.msg = "running"
    /\ Returns(ON_GOING)

\* C2: a launch that gets a response with an error status raises
\* AnsibleRunnerServiceError with the reason phrase of the response, a launch whose
\* POST fails at transport level raises AnsibleRunnerServiceError with the message
\* of the failure, and in both cases the identifier is what it was before the call.
C2_FailedLaunchKeepsIdentifier ==
    LaunchCalled =>
        /\ OnlyRequest("POST", <<"api/v1/playbooks", before.playbook>>)
        /\ ErrorStatus =>
              /\ Raises("AnsibleRunnerServiceError")
              /\ result.msg = net.resp.reason
              /\ handle.play_uuid = before.play_uuid
        /\ net.failed =>
              /\ Raises("AnsibleRunnerServiceError")
              /\ result.msg = net.ex.msg
              /\ handle.play_uuid = before.play_uuid

C2_Witness ==
    /\ LaunchCalled /\ ErrorStatus /\ net.resp.status = 404
    /\ before.play_uuid = "u1" /\ handle.play_uuid = "u1"
    /\ Raises("AnsibleRunnerServiceError") /\ result.msg = "Not Found"

\* C3: get_status returns NotLaunched if and only if the identifier is "-", and
\* then it issues no request; as long as no launch has succeeded, whatever the
\* number of failed launches, the identifier is "-" and get_status returns
\* NotLaunched.
C3_NotLaunchedIffSentinel ==
    /\ history # "launched" => handle.play_uuid = "-"
    /\ StatusCalled =>
          /\ Returns(NOT_LAUNCHED) <=> before.play_uuid = "-"
          /\ before.play_uuid = "-" => sent = <<>>
          /\ history # "launched" => Returns(NOT_LAUNCHED)

C3_Witness ==
    /\ StatusCalled /\ history = "failed"
    /\ Returns(NOT_LAUNCHED) /\ sent = <<>>

\* C4 as stated: get_status returns Error if and only if the identifier is the
\* empty string.
C4_ErrorIffEmpty ==
    StatusCalled => (Returns(ERROR) <=> before.play_uuid = "")

\* C4 as amended: when the identifier is the empty string get_status returns Error
\* and issues no request; it returns Error also, and only, for an identifier other
\* than "-" and "" whose GET failed at transport level, got an error status, or
\* got a msg of "failed".
C4_ErrorWhenEmptyOrFailed ==
    StatusCalled =>
        /\ before.play_uuid = "" => Returns(ERROR) /\ sent = <<>>
        /\ Returns(ERROR) <=>
              \/ before.play_uuid = ""
              \/ /\ HasId(before)
                 /\ \/ net.failed
                    \/ ErrorStatus
                    \/ net.resp.body.kind = "msg" /\ net.resp.body.msg = "failed"

C4_Witness ==
    /\ StatusCalled /\ before.play_uuid = ""
    /\ Returns(ERROR) /\ sent = <<>>

\* C5: get_result on a handle whose identifier is "-" or "" returns an empty
\* result set, for every event_filter, and issues no request.
C5_NoIdentifierNoResult ==
    ResultCalled /\ ~HasId(before) => Returns(EmptyDict) /\ sent = <<>>

\* C6: for a handle with an identifier and an events GET answered without an error
\* status, get_result returns exactly the entries of data.events that pass both
\* filters: (a) if a task pattern is configured, the entry has a task and the
\* pattern matches from the start of it; (b) if event_filter is not empty, the
\* event of the entry starts with one of the listed names.  With no pattern and an
\* empty filter the mapping is returned as it is.
C6_PatternMatchesFromStart(pattern, task) ==
    /\ Len(pattern) <= Len(task)
    /\ \A i \in 1..Len(pattern) : pattern[i] \in {".", task[i]}

C6_Passes(data) ==
    /\ before.result_task_pattern # <<>> =>
          data.hasTask /\ C6_PatternMatchesFromStart(before.result_task_pattern, data.task)
    /\ call.event_filter # <<>> =>
          \E i \in 1..Len(call.event_filter) : StartsWith(data.event, call.event_filter[i])

C6_ResultIsFilteredEvents ==
    ResultCalled /\ HasId(before) /\ NoErrorStatus /\ net.resp.body.kind = "events" =>
        LET events == net.resp.body.events
        IN /\ result.kind = "return"
           /\ DOMAIN result.value = {e \in DOMAIN events : C6_Passes(events[e])}
           /\ \A e \in DOMAIN result.value : result.value[e] = events[e]
           /\ before.result_task_pattern = <<>> /\ call.event_filter = <<>> =>
                 result.value = events

C6_Witness ==
    /\ ResultCalled /\ HasId(before) /\ NoErrorStatus /\ net.resp.body.kind = "events"
    /\ before.result_task_pattern # <<>> /\ call.event_filter # <<>>
    /\ Cardinality(DOMAIN net.resp.body.events) = 2
    /\ result.kind = "return" /\ Cardinality(DOMAIN result.value) = 1

\* C7: the identifier changes only through a successful launch: a launch whose POST
\* gets a response without an error status and with data.play_uuid stores that
\* play_uuid, also over an identifier already held; no other call changes the
\* identifier, and no call at all changes another field of the handle or the client.
C7_OnlyLaunchSetsIdentifier ==
    Returned =>
        /\ LaunchCalled /\ NoErrorStatus /\ net.resp.body.kind = "play" =>
              handle.play_uuid = net.resp.body.play_uuid
        /\ handle # before =>
              /\ LaunchCalled /\ NoErrorStatus /\ net.resp.body.kind = "play"
              /\ handle = [before EXCEPT !.play_uuid = net.resp.body.play_uuid]
        /\ call.op \in {"get_status", "get_result"} => handle = before

C7_Witness ==
    /\ LaunchCalled /\ NoErrorStatus
    /\ before.play_uuid = "u1" /\ handle.play_uuid = "u2"

\* C8: is_operative issues one GET on the service root; it returns TRUE exactly
\* when the status of the response is 200, FALSE for every other status, and it
\* raises AnsibleRunnerServiceError exactly when the request fails at connection
\* level.
C8_OperativeIffStatusOk ==
    Returned /\ call.op = "is_operative" =>
        /\ OnlyRequest("GET", <<"api">>)
        /\ net.failed => Raises("AnsibleRunnerServiceError") /\ result.msg = net.ex.msg
        /\ ~net.failed => Returns(net.resp.status = 200)

C8_Witness ==
    /\ Returned /\ call.op = "is_operative"
    /\ GotResponse /\ net.resp.status = 201 /\ Returns(FALSE)

C10_ErrorStatusIsNoResponse ==
    Returned /\ HasId(before) /\ ErrorStatus =>
        /\ call.op = "get_status" => Returns(ERROR)
        /\ call.op = "get_result" => Returns(EmptyDict)

C10_Witness ==
    /\ StatusCalled /\ HasId(before) /\ ErrorStatus
    /\ net.resp.body.kind = "msg" /\ net.resp.body.msg = "successful"
    /\ Returns(ERROR)

====
